---------------------------- MODULE Spec2Model ----------------------------
(***************************************************************************)
(* Model of the program-assembly engine of src/app.py: the target          *)
(* allocator (distribute_targets), the exercise selector                   *)
(* (select_exercises), the progression functions (adjust_reps,             *)
(* adjust_rpe), the set splitter (split_sets) and the assembler            *)
(* (generate_program).                                                     *)
(*                                                                         *)
(* Strings: the source writes the catalog names with an en dash            *)
(* ("Legs <en dash> Quads"); TLA+ strings are ASCII, so the dash is        *)
(* written "-" here.  Nothing in the code looks inside a name.             *)
(***************************************************************************)
EXTENDS Integers, Sequences, FiniteSets, TLC

VARIABLES
    pc,               \* control position of the call in progress
    args,             \* the arguments of the call in progress
    ret,              \* the value returned by a pure function call
    muscle_schedule,  \* generate_program: day schedule of muscle groups
    pattern_schedule, \* generate_program: day schedule of movement patterns
    week,             \* generate_program: loop variable `week`
    day_idx,          \* generate_program: loop variable `day_idx`
    rows              \* generate_program: the list `rows`

vars == <<pc, args, ret, muscle_schedule, pattern_schedule, week, day_idx, rows>>

\* The locals of generate_program while no program is being generated.
ProgramIdle ==
    /\ muscle_schedule = <<>>
    /\ pattern_schedule = <<>>
    /\ week = 0
    /\ day_idx = 0
    /\ rows = <<>>

-----------------------------------------------------------------------------
(* Bounds of the model *)

MaxTargets == 3     \* entries of a target mapping
MaxSets == 3        \* sets per week of one target
MaxDays == 6        \* num_days handed to distribute_targets
MaxTotalSets == 12  \* total_sets handed to split_sets
MaxNumEx == 5       \* num_ex handed to split_sets
MaxNum == 3         \* num handed to select_exercises
MaxBase == 2        \* bounds of the base ranges tried beside the predefined ones
MaxWeek == 7        \* weeks the progression functions are applied to
MaxTotalWeeks == 7  \* total_weeks handed to the progression functions
MaxDayOfWeek == 4   \* day_of_week handed to the progression functions
MaxProgWeeks == 4   \* num_weeks of a generated program
MaxProgDays == 3    \* days_per_week of a generated program
MaxEx == 2          \* num_wod_ex and num_acc_ex of a generated program
MaxPick == 1        \* generate_program: each shuffle draws its next entry among
                    \* the first MaxPick entries not yet drawn (the rows keep
                    \* every drawn name, so the orders multiply per session;
                    \* SpecSelect explores every order of one call)

-----------------------------------------------------------------------------
(* Generic helpers *)

Max(a, b) == IF a >= b THEN a ELSE b

Min(a, b) == IF a <= b THEN a ELSE b

Range(s) == {s[i] : i \in 1..Len(s)}

RECURSIVE SumSeq(_)
SumSeq(s) == IF s = <<>> THEN 0 ELSE Head(s) + SumSeq(Tail(s))

\* list.count(x)
Count(s, x) == Cardinality({i \in 1..Len(s) : s[i] = x})

\* [x] * n  (the empty list when n <= 0)
Repeat(x, n) == [i \in 1..Max(n, 0) |-> x]

\* Sequences over S of length n without a repeated element.
RECURSIVE Arrangements(_, _)
Arrangements(S, n) ==
    IF n = 0 THEN {<<>>}
    ELSE UNION {{<<x>> \o r : r \in Arrangements(S \ {x}, n - 1)} : x \in S}

\* Python's order on the strings the model uses (code point order).
SortedNames ==
    <<"", "Arms", "Back", "Carry", "Chest", "Core", "Core - Rotation",
      "Core - Stability", "Full Body", "Glutes", "Hinge",
      "Legs - Hamstrings", "Legs - Quads", "Pull - Horizontal",
      "Pull - Vertical", "Push - Horizontal", "Push - Vertical",
      "Shoulders", "Squat">>

NameRank(s) == CHOOSE i \in 1..Len(SortedNames) : SortedNames[i] = s

-----------------------------------------------------------------------------
(* Data definitions *)

MUSCLE_GROUPS ==
    <<"Full Body", "Legs - Quads", "Legs - Hamstrings", "Glutes", "Chest",
      "Back", "Shoulders", "Arms", "Core">>

MOVEMENT_PATTERNS ==
    <<"Squat", "Hinge", "Push - Horizontal", "Push - Vertical",
      "Pull - Horizontal", "Pull - Vertical", "Carry", "Core - Stability",
      "Core - Rotation">>

\* A Python dict is a sequence of entries in insertion order with distinct keys.
EXERCISE_DB ==
    << [mg |-> "Legs - Quads", mp |-> "Squat",
        ex |-> <<"Air Squat", "Goblet Squat", "Barbell Back Squat">>],
       [mg |-> "Legs - Hamstrings", mp |-> "Hinge",
        ex |-> <<"Romanian Deadlift", "Barbell Deadlift">>],
       [mg |-> "Glutes", mp |-> "Hinge", ex |-> <<"Glute Bridge", "Hip Thrust">>],
       [mg |-> "Chest", mp |-> "Push - Horizontal", ex |-> <<"Push-Up", "Bench Press">>],
       [mg |-> "Back", mp |-> "Pull - Vertical", ex |-> <<"Pull-Up">>],
       [mg |-> "Back", mp |-> "Pull - Horizontal", ex |-> <<"Bent-Over Row">>],
       [mg |-> "Core", mp |-> "Core - Stability", ex |-> <<"Plank">>],
       [mg |-> "Core", mp |-> "Core - Rotation", ex |-> <<"Weighted Russian Twist">>],
       [mg |-> "Full Body", mp |-> "Carry", ex |-> <<"Farmer's Carry">>] >>

-----------------------------------------------------------------------------
(* distribute_targets *)

\* A target mapping: entries [name, sets] in insertion order, names distinct.
TargetKeys(targets) == [i \in 1..Len(targets) |-> targets[i].name]

\* total_sets = sum(max(v, 1) for v in targets.values())
TotalSets(targets) == SumSeq([i \in 1..Len(targets) |-> Max(targets[i].sets, 1)])

\* weights[t] = v / total_sets * num_days, kept exact as the numerator over
\* the denominator TotalSets(targets).
WeightNum(targets, num_days, i) == targets[i].sets * num_days

\* floor_days[t] = int(math.floor(w))
floor_days(targets, num_days) ==
    [i \in 1..Len(targets) |-> WeightNum(targets, num_days, i) \div TotalSets(targets)]

\* w - floor_days[t], as a numerator over TotalSets(targets)
FracNum(targets, num_days, i) == WeightNum(targets, num_days, i) % TotalSets(targets)

\* The sort without reverse=True: the smaller remainder first.
SortsBefore_Ascending(targets, num_days, i, j) ==
    \/ FracNum(targets, num_days, i) < FracNum(targets, num_days, j)
    \/ /\ FracNum(targets, num_days, i) = FracNum(targets, num_days, j)
       /\ \/ targets[i].sets # targets[j].sets
          \/ NameRank(targets[i].name) < NameRank(targets[j].name)

\* Whether entry i may stand directly before entry j in
\* sorted([(w - floor_days[t], t) ...], reverse=True).  The code compares the
\* float values: a larger remainder sorts first.  Remainders that are equal
\* as exact numbers can come out of the float arithmetic equal or a last bit
\* apart in either direction (1/6*2 against 4/6*2 - 1), so such a pair may
\* stand either way, unless the two entries have the same count: then the
\* floats are the same and the names decide, the larger name first.
SortsBefore(targets, num_days, i, j) ==
    \/ FracNum(targets, num_days, i) > FracNum(targets, num_days, j)
    \/ /\ FracNum(targets, num_days, i) = FracNum(targets, num_days, j)
       /\ \/ targets[i].sets # targets[j].sets
          \/ NameRank(targets[i].name) > NameRank(targets[j].name)

\* The lists `fractional` can be (as sequences of names).
FractionalOrders(targets, num_days) ==
    {[k \in 1..Len(targets) |-> targets[o[k]].name] :
        o \in {p \in Arrangements(1..Len(targets), Len(targets)) :
                 \A k \in 1..(Len(targets) - 1) :
                     SortsBefore(targets, num_days, p[k], p[k + 1])}}

\* for t, count in floor_days.items(): schedule.extend([t] * count)
RECURSIVE FloorSchedule(_, _, _)
FloorSchedule(targets, num_days, i) ==
    IF i > Len(targets) THEN <<>>
    ELSE Repeat(targets[i].name, floor_days(targets, num_days)[i])
         \o FloorSchedule(targets, num_days, i + 1)

\* while len(schedule) < num_days: schedule.append(fractional[i % len]); i += 1
RECURSIVE AllocateRemaining(_, _, _, _)
AllocateRemaining(schedule, fractional, num_days, i) ==
    IF Len(schedule) >= num_days THEN schedule
    ELSE AllocateRemaining(Append(schedule, fractional[(i % Len(fractional)) + 1]),
                           fractional, num_days, i + 1)

\* The list `schedule` before the interleaving.
Schedule(targets, num_days, fractional) ==
    AllocateRemaining(FloorSchedule(targets, num_days, 1), fractional, num_days, 0)

\* The interleaving loop: k is the position of the inner `for t in unique`,
\* counts the dict `counts` (indexed like unique).
InterleaveSkip(unique, counts, interleaved, num_days, k) ==
    IF k > Len(unique) THEN <<counts, interleaved, 1>>
    ELSE IF counts[k] > 0
         THEN <<[counts EXCEPT ![k] = @ - 1], Append(interleaved, unique[k]), k + 1>>
         ELSE <<counts, interleaved, k + 1>>

\* The interleaving loop leaving one day early.
RECURSIVE Interleave_OneShort(_, _, _, _, _)
Interleave_OneShort(unique, counts, interleaved, num_days, k) ==
    IF Len(interleaved) >= num_days - 1 THEN interleaved
    ELSE LET s == InterleaveSkip(unique, counts, interleaved, num_days, k)
         IN  Interleave_OneShort(unique, s[1], s[2], num_days, s[3])

RECURSIVE Interleave(_, _, _, _, _)
Interleave(unique, counts, interleaved, num_days, k) ==
    IF Len(interleaved) >= num_days THEN interleaved
    ELSE LET s == InterleaveSkip(unique, counts, interleaved, num_days, k)
         IN  Interleave(unique, s[1], s[2], num_days, s[3])

RoundRobin(unique, schedule, num_days) ==
    Interleave(unique, [k \in 1..Len(unique) |-> Count(schedule, unique[k])],
               <<>>, num_days, 1)

\* distribute_targets(targets, num_days), given the order the sort produced.
distribute_targets(targets, num_days, fractional) ==
    IF targets = <<>> \/ num_days <= 0
    THEN Repeat("", num_days)
    ELSE RoundRobin(TargetKeys(targets),
                    Schedule(targets, num_days, fractional), num_days)

\* Every value distribute_targets(targets, num_days) can return.
DistributeOutcomes(targets, num_days) ==
    IF targets = <<>> \/ num_days <= 0
    THEN {distribute_targets(targets, num_days, <<>>)}
    ELSE {distribute_targets(targets, num_days, f) :
              f \in FractionalOrders(targets, num_days)}

\* Inputs of the allocator: mappings of up to MaxTargets muscle groups with
\* 0..MaxSets sets each, in every insertion order.
AllocNames == {"Back", "Chest", "Core", "Glutes"}

TargetMaps ==
    UNION {{[i \in 1..n |-> [name |-> a[i], sets |-> c[i]]] :
                a \in Arrangements(AllocNames, n), c \in [1..n -> 0..MaxSets]} :
           n \in 0..Min(MaxTargets, Cardinality(AllocNames))}

InitAlloc ==
    /\ pc = "distribute_targets"
    /\ args \in [targets : TargetMaps, num_days : 0..MaxDays]
    /\ ret = <<>>
    /\ ProgramIdle

\* if not targets or num_days <= 0: return ["" for _ in range(num_days)]
DistributeEmpty ==
    /\ pc = "distribute_targets"
    /\ (args.targets = <<>> \/ args.num_days <= 0)
    /\ ret' = distribute_targets(args.targets, args.num_days, <<>>)
    /\ pc' = "returned"
    /\ UNCHANGED <<args, muscle_schedule, pattern_schedule, week, day_idx, rows>>

Distribute ==
    /\ pc = "distribute_targets"
    /\ args.targets # <<>>
    /\ args.num_days > 0
    /\ \E f \in FractionalOrders(args.targets, args.num_days) :
          ret' = distribute_targets(args.targets, args.num_days, f)
    /\ pc' = "returned"
    /\ UNCHANGED <<args, muscle_schedule, pattern_schedule, week, day_idx, rows>>

NextAlloc == DistributeEmpty \/ Distribute

SpecAlloc == InitAlloc /\ [][NextAlloc]_vars

-----------------------------------------------------------------------------
(* Claims about distribute_targets, checked under SpecAlloc *)

AllocReturned ==
    /\ pc = "returned"
    /\ args.targets # <<>>
    /\ args.num_days > 0

\* The number of days the returned schedule gives to entry i of the mapping.
DaysOf(i) == Count(ret, args.targets[i].name)

\* The sum of the counts when every count is at least 1 (then it is total_sets).
SumOfSets == SumSeq([i \in 1..Len(args.targets) |-> args.targets[i].sets])

AllSetsPositive == \A i \in 1..Len(args.targets) : args.targets[i].sets >= 1

\* C1: for a non-empty mapping and num_days > 0 the returned list has exactly
\* num_days entries and every entry is a key of the mapping.
C1_LengthAndKeys ==
    AllocReturned =>
        /\ Len(ret) = args.num_days
        /\ \A d \in 1..Len(ret) : ret[d] \in Range(TargetKeys(args.targets))

C1_Witness ==
    /\ AllocReturned
    /\ Len(args.targets) = 3
    /\ args.num_days = 4
    /\ Cardinality(Range(ret)) = 3

\* C5 (as claimed): with more than one target, whenever the day counts the
\* allocator chose can be ordered so that no two consecutive days carry the
\* same target, the returned list has no two consecutive equal entries.
C5_NoAvoidableAdjacency ==
    (/\ AllocReturned
     /\ AllSetsPositive          \* a mapping as main() builds it
     /\ Len(args.targets) > 1
     /\ \E p \in Arrangements(1..Len(ret), Len(ret)) :
            \A d \in 1..(Len(ret) - 1) : ret[p[d]] # ret[p[d + 1]])
    => \A d \in 1..(Len(ret) - 1) : ret[d] # ret[d + 1]

\* C7: with every count >= 1, weight(t) = count(t)/total*N: each target gets
\* floor(weight) or floor(weight) + 1 days, a target with an integer weight
\* gets exactly that many, a target that got an extra day has a fractional
\* remainder at least as large as any target that got none, and counts 2:1
\* over 6 days give 4 and 2 days.
C7_Proportional ==
    (AllocReturned /\ AllSetsPositive) =>
        LET T == SumOfSets
            N == args.num_days
            W(i) == args.targets[i].sets * N            \* weight(i) * T
            Extra(i) == DaysOf(i) * T > W(i)
            Rem(i) == IF Extra(i) THEN W(i) - (DaysOf(i) - 1) * T
                                  ELSE W(i) - DaysOf(i) * T
        IN  /\ \A i \in 1..Len(args.targets) :
                   /\ (DaysOf(i) - 1) * T <= W(i)
                   /\ W(i) < (DaysOf(i) + 1) * T
                   /\ (W(i) % T = 0 => DaysOf(i) * T = W(i))
            /\ \A i, j \in 1..Len(args.targets) :
                   (Extra(i) /\ ~Extra(j)) => Rem(i) >= Rem(j)
            /\ (/\ Len(args.targets) = 2
                /\ N = 6
                /\ args.targets[1].sets = 2 * args.targets[2].sets)
               => (DaysOf(1) = 4 /\ DaysOf(2) = 2)

\* Counts 1, 2, 3 over 5 days: weights 5/6, 10/6, 15/6, floors 0, 1, 2, and
\* the two extra days go to the remainders 5/6 and 4/6, not to 3/6.
C7_Witness ==
    /\ AllocReturned
    /\ AllSetsPositive
    /\ args.num_days = 5
    /\ Len(args.targets) = 3
    /\ args.targets[1].sets = 1
    /\ args.targets[2].sets = 2
    /\ args.targets[3].sets = 3
    /\ DaysOf(1) = 1
    /\ DaysOf(2) = 2
    /\ DaysOf(3) = 2
    /\ ret = <<args.targets[1].name, args.targets[2].name, args.targets[3].name,
               args.targets[2].name, args.targets[3].name>>

-----------------------------------------------------------------------------
(* split_sets (the helper defined inside generate_program) *)

\* sets_list = [max(1, s) for s in sets_list], dropped
split_sets_NoFloor(total_sets, num_ex) ==
    IF total_sets <= 0 \/ num_ex <= 0
    THEN Repeat(0, num_ex)
    ELSE [i \in 1..num_ex |->
             (total_sets \div num_ex) + (IF i <= total_sets % num_ex THEN 1 ELSE 0)]

\* The early return giving [] instead of [0] * num_ex.
split_sets_EmptyOnZero(total_sets, num_ex) ==
    IF total_sets <= 0 \/ num_ex <= 0
    THEN <<>>
    ELSE [i \in 1..num_ex |->
             Max(1, (total_sets \div num_ex) + (IF i <= total_sets % num_ex THEN 1 ELSE 0))]

split_sets(total_sets, num_ex) ==
    IF total_sets <= 0 \/ num_ex <= 0
    THEN Repeat(0, num_ex)
    ELSE LET base == total_sets \div num_ex
             remainder == total_sets % num_ex
             sets_list == [i \in 1..num_ex |-> IF i <= remainder THEN base + 1 ELSE base]
         IN  [i \in 1..num_ex |-> Max(1, sets_list[i])]

InitSplit ==
    /\ pc = "split_sets"
    /\ args \in [total_sets : (-1)..MaxTotalSets, num_ex : 0..MaxNumEx]
    /\ ret = <<>>
    /\ ProgramIdle

\* if total_sets <= 0 or num_ex <= 0: return [0] * num_ex
SplitZero ==
    /\ pc = "split_sets"
    /\ (args.total_sets <= 0 \/ args.num_ex <= 0)
    /\ ret' = split_sets(args.total_sets, args.num_ex)
    /\ pc' = "returned"
    /\ UNCHANGED <<args, muscle_schedule, pattern_schedule, week, day_idx, rows>>

Split ==
    /\ pc = "split_sets"
    /\ args.total_sets > 0
    /\ args.num_ex > 0
    /\ ret' = split_sets(args.total_sets, args.num_ex)
    /\ pc' = "returned"
    /\ UNCHANGED <<args, muscle_schedule, pattern_schedule, week, day_idx, rows>>

NextSplit == SplitZero \/ Split

SpecSplit == InitSplit /\ [][NextSplit]_vars

\* C3: for total_sets > 0 and num_ex > 0 the list has num_ex entries, sums to
\* at least total_sets and has no 0 entry; for total_sets <= 0 (num_ex >= 0)
\* it is num_ex zeros.
C3_SplitSets ==
    pc = "returned" =>
        /\ (args.total_sets > 0 /\ args.num_ex > 0) =>
               /\ Len(ret) = args.num_ex
               /\ SumSeq(ret) >= args.total_sets
               /\ \A i \in 1..Len(ret) : ret[i] # 0
        /\ (args.total_sets <= 0 /\ args.num_ex >= 0) =>
               /\ Len(ret) = args.num_ex
               /\ \A i \in 1..Len(ret) : ret[i] = 0

\* 2 sets over 5 exercises: the floor at 1 makes the sum exceed the total.
C3_Witness ==
    /\ pc = "returned"
    /\ args.total_sets = 2
    /\ args.num_ex = 5
    /\ SumSeq(ret) = 5

-----------------------------------------------------------------------------
(* select_exercises *)

\* The exercises of the catalog entries i.. that the given loop of
\* select_exercises extends `choices` with, in catalog order.
Selected(loop, e, mg, mp) ==
    CASE loop = "primary" -> e.mg = mg /\ e.mp = mp
      [] loop = "muscle"  -> e.mg = mg /\ ~(e.mg = mg /\ e.mp = mp)
      [] loop = "pattern" -> e.mp = mp /\ ~(e.mg = mg /\ e.mp = mp) /\ e.mg # mg
      [] loop = "all"     -> TRUE

RECURSIVE Extend(_, _, _, _)
Extend(loop, i, mg, mp) ==
    IF i > Len(EXERCISE_DB) THEN <<>>
    ELSE (IF Selected(loop, EXERCISE_DB[i], mg, mp) THEN EXERCISE_DB[i].ex ELSE <<>>)
         \o Extend(loop, i + 1, mg, mp)

\* The list `choices` before the duplicates are removed.
Choices(mg, mp) ==
    LET matched == Extend("primary", 1, mg, mp) \o Extend("muscle", 1, mg, mp)
                   \o Extend("pattern", 1, mg, mp)
    IN  IF matched = <<>> THEN Extend("all", 1, mg, mp) ELSE matched

\* list(dict.fromkeys(choices)): the first occurrence of each name, in order
RECURSIVE Dedup(_, _)
Dedup(s, seen) ==
    IF s = <<>> THEN <<>>
    ELSE IF Head(s) \in seen THEN Dedup(Tail(s), seen)
         ELSE <<Head(s)>> \o Dedup(Tail(s), seen \cup {Head(s)})

unique_choices(mg, mp) == Dedup(Choices(mg, mp), {})

RemoveAt(s, i) == [k \in 1..(Len(s) - 1) |-> IF k < i THEN s[k] ELSE s[k + 1]]

\* Drawing every element anew from the whole pool (random.choice per slot).
RECURSIVE ShufflePrefixes_WithReplacement(_, _, _)
ShufflePrefixes_WithReplacement(pool, m, width) ==
    IF m = 0 THEN {<<>>}
    ELSE UNION {{<<pool[i]>> \o r :
                    r \in ShufflePrefixes_WithReplacement(pool, m - 1, width)} :
                i \in 1..Min(Len(pool), width)}

\* The first m entries of `pool` after random.shuffle(pool): any m distinct
\* entries in any order.  `width` bounds the exploration: each entry is drawn
\* among the first `width` entries not yet drawn (every order when
\* width >= Len(pool)).
RECURSIVE ShufflePrefixes(_, _, _)
ShufflePrefixes(pool, m, width) ==
    IF m = 0 THEN {<<>>}
    ELSE UNION {{<<pool[i]>> \o r :
                    r \in ShufflePrefixes(RemoveAt(pool, i), m - 1, width)} :
                i \in 1..Min(Len(pool), width)}

\* while len(result) < num: shuffle a copy of the pool and append its entries
\* until result has num entries.
RECURSIVE FillResult(_, _, _, _)
FillResult(unique, result, num, width) ==
    IF Len(result) >= num THEN {result}
    ELSE UNION {FillResult(unique, result \o pre, num, width) :
                   pre \in ShufflePrefixes(unique,
                                           Min(Len(unique), num - Len(result)), width)}

\* No fallback to the whole catalog: blank names when nothing matches.
SelectOutcomes_BlankOnNoMatch(mg, mp, num, width) ==
    IF num <= 0 THEN {<<>>}
    ELSE IF Extend("primary", 1, mg, mp) \o Extend("muscle", 1, mg, mp)
            \o Extend("pattern", 1, mg, mp) = <<>>
         THEN {Repeat("", num)}
         ELSE FillResult(unique_choices(mg, mp), <<>>, num, width)

\* Every value select_exercises(mg, mp, num) can return, the shuffles taken
\* within `width`.
SelectOutcomes(mg, mp, num, width) ==
    IF num <= 0 THEN {<<>>}
    ELSE FillResult(unique_choices(mg, mp), <<>>, num, width)

\* Every name of the catalog, once.
CatalogNames == Range(Extend("all", 1, "", ""))

select_exercises(mg, mp, num) == SelectOutcomes(mg, mp, num, Cardinality(CatalogNames))

InitSelect ==
    /\ pc = "select_exercises"
    /\ args \in [mg : Range(MUSCLE_GROUPS) \cup {""},
                 mp : Range(MOVEMENT_PATTERNS) \cup {""},
                 num : (-1)..MaxNum]
    /\ ret = <<>>
    /\ ProgramIdle

\* if num <= 0: return []
SelectNone ==
    /\ pc = "select_exercises"
    /\ args.num <= 0
    /\ ret' \in select_exercises(args.mg, args.mp, args.num)
    /\ pc' = "returned"
    /\ UNCHANGED <<args, muscle_schedule, pattern_schedule, week, day_idx, rows>>

Select ==
    /\ pc = "select_exercises"
    /\ args.num > 0
    /\ ret' \in select_exercises(args.mg, args.mp, args.num)
    /\ pc' = "returned"
    /\ UNCHANGED <<args, muscle_schedule, pattern_schedule, week, day_idx, rows>>

NextSelect == SelectNone \/ Select

SpecSelect == InitSelect /\ [][NextSelect]_vars

\* The deduplicated candidate pool of the call, stated from the catalog: the
\* exercises of the entries that share the pair, the muscle group or the
\* pattern, and the whole catalog when there is none.
PoolOfCall ==
    LET near == UNION {Range(EXERCISE_DB[i].ex) :
                          i \in {j \in 1..Len(EXERCISE_DB) :
                                    \/ EXERCISE_DB[j].mg = args.mg
                                    \/ EXERCISE_DB[j].mp = args.mp}}
    IN  IF near = {} THEN CatalogNames ELSE near

\* C4: for count > 0 the result has exactly count names, all from the
\* deduplicated pool; with pool size k every block of k results starting at
\* 0, k, 2k, ... has no duplicate, and the first min(count, k) results are
\* pairwise distinct; for count <= 0 the result is empty.
C4_SelectExercises ==
    pc = "returned" =>
        LET k == Cardinality(PoolOfCall)
        IN  /\ args.num <= 0 => ret = <<>>
            /\ args.num > 0 =>
                   /\ Len(ret) = args.num
                   /\ Range(ret) \subseteq PoolOfCall
                   /\ \A i, j \in 1..Len(ret) :
                          (i < j /\ (i - 1) \div k = (j - 1) \div k) => ret[i] # ret[j]
                   /\ \A i, j \in 1..Min(args.num, k) : i < j => ret[i] # ret[j]

\* Three names from a pool of two (Plank, Weighted Russian Twist): the second
\* cycle starts with the name the first cycle ended with.
C4_Witness ==
    /\ pc = "returned"
    /\ args.mg = "Core"
    /\ args.mp = "Core - Stability"
    /\ args.num = 3
    /\ ret[2] = ret[3]
    /\ ret[1] # ret[2]

-----------------------------------------------------------------------------
(* choose_exercise *)

\* (mg, mp) in EXERCISE_DB and EXERCISE_DB[(mg, mp)]: the position of the entry
\* with that key and a non-empty list, 0 when there is none (keys are distinct).
RECURSIVE ExactEntry(_, _, _)
ExactEntry(i, mg, mp) ==
    IF i > Len(EXERCISE_DB) THEN 0
    ELSE IF /\ EXERCISE_DB[i].mg = mg
            /\ EXERCISE_DB[i].mp = mp
            /\ EXERCISE_DB[i].ex # <<>>
         THEN i
         ELSE ExactEntry(i + 1, mg, mp)

\* for (m, p), ex_list in EXERCISE_DB.items(): if m == mg and ex_list: return
RECURSIVE MuscleEntry(_, _)
MuscleEntry(i, mg) ==
    IF i > Len(EXERCISE_DB) THEN 0
    ELSE IF EXERCISE_DB[i].mg = mg /\ EXERCISE_DB[i].ex # <<>> THEN i
         ELSE MuscleEntry(i + 1, mg)

\* for (m, p), ex_list in EXERCISE_DB.items(): if p == mp and ex_list: return
RECURSIVE PatternEntry(_, _)
PatternEntry(i, mp) ==
    IF i > Len(EXERCISE_DB) THEN 0
    ELSE IF EXERCISE_DB[i].mp = mp /\ EXERCISE_DB[i].ex # <<>> THEN i
         ELSE PatternEntry(i + 1, mp)

\* Variant: the movement-pattern loop runs before the muscle-group loop.
choose_exercise_PatternFirst(mg, mp) ==
    IF ExactEntry(1, mg, mp) # 0 THEN EXERCISE_DB[ExactEntry(1, mg, mp)].ex[1]
    ELSE IF PatternEntry(1, mp) # 0 THEN EXERCISE_DB[PatternEntry(1, mp)].ex[1]
    ELSE IF MuscleEntry(1, mg) # 0 THEN EXERCISE_DB[MuscleEntry(1, mg)].ex[1]
    ELSE ""

choose_exercise(mg, mp) ==
    IF ExactEntry(1, mg, mp) # 0 THEN EXERCISE_DB[ExactEntry(1, mg, mp)].ex[1]
    ELSE IF MuscleEntry(1, mg) # 0 THEN EXERCISE_DB[MuscleEntry(1, mg)].ex[1]
    ELSE IF PatternEntry(1, mp) # 0 THEN EXERCISE_DB[PatternEntry(1, mp)].ex[1]
    ELSE ""

\* Arguments: every listed muscle group and movement pattern, the empty string
\* and one name that no list and no catalog entry holds.
ChooseMuscles == Range(MUSCLE_GROUPS) \cup {"", "Calves"}

ChoosePatterns == Range(MOVEMENT_PATTERNS) \cup {"", "Lunge"}

InitChoose ==
    /\ pc = "choose_exercise"
    /\ args \in [mg : ChooseMuscles, mp : ChoosePatterns]
    /\ ret = <<>>
    /\ ProgramIdle

Choose ==
    /\ pc = "choose_exercise"
    /\ ret' = choose_exercise(args.mg, args.mp)
    /\ pc' = "returned"
    /\ UNCHANGED <<args, muscle_schedule, pattern_schedule, week, day_idx, rows>>

NextChoose == Choose

SpecChoose == InitChoose /\ [][NextChoose]_vars

\* The catalog positions that hold the pair, the muscle group, the pattern of
\* the call, stated as sets.
PairPositions ==
    {i \in 1..Len(EXERCISE_DB) :
        EXERCISE_DB[i].mg = args.mg /\ EXERCISE_DB[i].mp = args.mp}

MusclePositions == {i \in 1..Len(EXERCISE_DB) : EXERCISE_DB[i].mg = args.mg}

PatternPositions == {i \in 1..Len(EXERCISE_DB) : EXERCISE_DB[i].mp = args.mp}

Lowest(S) == CHOOSE i \in S : \A j \in S : i <= j

\* C11: choose_exercise(mg, mp) returns the first exercise of the entry keyed
\* (mg, mp) if there is one; otherwise the first exercise of the first catalog
\* entry whose muscle group is mg; otherwise the first exercise of the first
\* catalog entry whose movement pattern is mp; otherwise the empty string.  A
\* pair sharing neither muscle group nor pattern with any entry yields "", and
\* ("Chest", "Push - Horizontal") yields "Push-Up".
C11_LookupOrder ==
    pc = "returned" =>
        /\ ret = (IF PairPositions # {}
                     THEN EXERCISE_DB[Lowest(PairPositions)].ex[1]
                  ELSE IF MusclePositions # {}
                     THEN EXERCISE_DB[Lowest(MusclePositions)].ex[1]
                  ELSE IF PatternPositions # {}
                     THEN EXERCISE_DB[Lowest(PatternPositions)].ex[1]
                  ELSE "")
        /\ Cardinality(PairPositions) <= 1
        /\ (MusclePositions = {} /\ PatternPositions = {}) => ret = ""
        /\ (args.mg = "Chest" /\ args.mp = "Push - Horizontal") => ret = "Push-Up"

\* ("Back", "Hinge") is no catalog key; Back is the muscle group of entry 5 and
\* Hinge the pattern of entry 2: the muscle group wins.
C11_Witness ==
    /\ pc = "returned"
    /\ args.mg = "Back"
    /\ args.mp = "Hinge"
    /\ PairPositions = {}
    /\ Lowest(PatternPositions) < Lowest(MusclePositions)
    /\ ret = "Pull-Up"

-----------------------------------------------------------------------------
(* Progression functions: adjust_reps, adjust_rpe *)

\* A range is a pair <<low, high>>.
VOLUME_LEVELS(label) ==
    CASE label = "Low Volume"    -> <<2, 8>>
      [] label = "Medium Volume" -> <<6, 15>>
      [] label = "High Volume"   -> <<12, 15>>

INTENSITY_LEVELS(label) ==
    CASE label = "Low Intensity"    -> <<6, 7>>
      [] label = "Medium Intensity" -> <<7, 8>>
      [] label = "High Intensity"   -> <<9, 10>>

\* The spellings of a progression kind the model hands in ("Wave" is no kind).
ProgressionSpellings ==
    {"Linear", "LINEAR", "Undulating", "Block", "block", "Conjugate", "CONJUGATE",
     "Wave"}

\* str.lower() on those spellings.
Lower(s) ==
    CASE s \in {"Linear", "LINEAR", "linear"}             -> "linear"
      [] s \in {"Undulating", "undulating"}               -> "undulating"
      [] s \in {"Block", "block", "BLOCK"}                -> "block"
      [] s \in {"Conjugate", "CONJUGATE", "conjugate"}    -> "conjugate"
      [] s = "Wave"                                       -> "wave"

\* third = total_weeks // 3, without the max(1, ...)
BlockThird_NoMax(total_weeks) == total_weeks \div 3

\* third = max(1, total_weeks // 3)
BlockThird(total_weeks) == Max(1, BlockThird_NoMax(total_weeks))

\* Rounding a number of halves to the nearest integer, halves up.
IntOfHalves_Rounded(h) == (h + 1) \div 2

\* int(x) for x = h/2: truncation toward zero.
IntOfHalves(h) == IF h >= 0 THEN h \div 2 ELSE -((-h) \div 2)

\* increment = (week - 1) // 2 * 0.5, as a number of halves
RpeIncrementHalves(wk) == (wk - 1) \div 2

UndulatingReps == <<"High Volume", "Low Volume", "Medium Volume">>

UndulatingRpe == <<"Low Intensity", "High Intensity", "Medium Intensity">>

ConjugateReps == <<"Low Volume", "Medium Volume", "High Volume">>

\* The intensities in the order of the volumes (not reversed).
ConjugateRpe_NotReversed == <<"Low Intensity", "Medium Intensity", "High Intensity">>

ConjugateRpe == <<"High Intensity", "Medium Intensity", "Low Intensity">>

\* Variant: under Linear the increment is added to the low bound only.
adjust_reps_LowOnly(base_range, wk, total_weeks, progression, day_of_week, days_per_week) ==
    LET low == base_range[1]
        high == base_range[2]
        kind == Lower(progression)
    IN  CASE kind = "linear" ->
                 LET increment == wk - 1 IN <<low + increment, high>>
          [] kind = "undulating" ->
                 VOLUME_LEVELS(UndulatingReps[((wk - 1) % Len(UndulatingReps)) + 1])
          [] kind = "block" ->
                 LET third == BlockThird(total_weeks)
                 IN  IF wk <= third THEN VOLUME_LEVELS("High Volume")
                     ELSE IF wk <= 2 * third THEN VOLUME_LEVELS("Medium Volume")
                     ELSE VOLUME_LEVELS("Low Volume")
          [] kind = "conjugate" ->
                 VOLUME_LEVELS(ConjugateReps[((day_of_week - 1) % Len(ConjugateReps)) + 1])
          [] OTHER -> base_range

adjust_reps(base_range, wk, total_weeks, progression, day_of_week, days_per_week) ==
    LET low == base_range[1]
        high == base_range[2]
        kind == Lower(progression)
    IN  CASE kind = "linear" ->
                 LET increment == wk - 1 IN <<low + increment, high + increment>>
          [] kind = "undulating" ->
                 VOLUME_LEVELS(UndulatingReps[((wk - 1) % Len(UndulatingReps)) + 1])
          [] kind = "block" ->
                 LET third == BlockThird(total_weeks)
                 IN  IF wk <= third THEN VOLUME_LEVELS("High Volume")
                     ELSE IF wk <= 2 * third THEN VOLUME_LEVELS("Medium Volume")
                     ELSE VOLUME_LEVELS("Low Volume")
          [] kind = "conjugate" ->
                 VOLUME_LEVELS(ConjugateReps[((day_of_week - 1) % Len(ConjugateReps)) + 1])
          [] OTHER -> base_range

adjust_rpe(base_rpe, wk, total_weeks, progression, day_of_week, days_per_week) ==
    LET low == base_rpe[1]
        high == base_rpe[2]
        kind == Lower(progression)
    IN  CASE kind = "linear" ->
                 <<IntOfHalves(2 * low + RpeIncrementHalves(wk)),
                   IntOfHalves(2 * high + RpeIncrementHalves(wk))>>
          [] kind = "undulating" ->
                 INTENSITY_LEVELS(UndulatingRpe[((wk - 1) % Len(UndulatingRpe)) + 1])
          [] kind = "block" ->
                 LET third == BlockThird(total_weeks)
                 IN  IF wk <= third THEN INTENSITY_LEVELS("Low Intensity")
                     ELSE IF wk <= 2 * third THEN INTENSITY_LEVELS("Medium Intensity")
                     ELSE INTENSITY_LEVELS("High Intensity")
          [] kind = "conjugate" ->
                 INTENSITY_LEVELS(ConjugateRpe[((day_of_week - 1) % Len(ConjugateRpe)) + 1])
          [] OTHER -> base_rpe

\* Base ranges: the predefined ones and every 0 <= low <= high <= MaxBase.
SmallRanges == {<<l, h>> : l \in 0..MaxBase, h \in 0..MaxBase} \ 
               {<<l, h>> \in (0..MaxBase) \X (0..MaxBase) : l > h}

BaseRepsRanges ==
    {VOLUME_LEVELS(l) : l \in {"Low Volume", "Medium Volume", "High Volume"}}
    \cup SmallRanges

BaseRpeRanges ==
    {INTENSITY_LEVELS(l) : l \in {"Low Intensity", "Medium Intensity", "High Intensity"}}
    \cup SmallRanges

\* The two functions are applied week after week, as generate_program does for
\* one day of the week: ret[w] holds the ranges of week w.
InitProg ==
    /\ pc = "adjust"
    /\ args \in [base_reps : BaseRepsRanges, base_rpe : BaseRpeRanges,
                 total_weeks : 1..MaxTotalWeeks, progression : ProgressionSpellings,
                 day_of_week : 1..MaxDayOfWeek, days_per_week : {3}]
    /\ ret = <<>>
    /\ ProgramIdle

Adjust ==
    /\ pc = "adjust"
    /\ Len(ret) < MaxWeek
    /\ LET wk == Len(ret) + 1
       IN  ret' = Append(ret,
                     [reps |-> adjust_reps(args.base_reps, wk, args.total_weeks,
                                           args.progression, args.day_of_week,
                                           args.days_per_week),
                      rpe |-> adjust_rpe(args.base_rpe, wk, args.total_weeks,
                                         args.progression, args.day_of_week,
                                         args.days_per_week)])
    /\ UNCHANGED <<pc, args, muscle_schedule, pattern_schedule, week, day_idx, rows>>

NextProg == Adjust

SpecProg == InitProg /\ [][NextProg]_vars

\* C8: under Linear (any letter case), for every week w >= 1: the reps bounds
\* are the base bounds plus (w - 1); the RPE bounds are the base bounds plus
\* floor((w - 1)/2) * 0.5 truncated to an integer (2*r <= 2*base + k < 2*r + 2
\* with k = floor((w - 1)/2)); week 1 returns both bases unchanged, week 3
\* reps are base + 2, week 4 reps are base + 3 and week 4 RPE is the week-1 RPE.
C8_Linear ==
    Lower(args.progression) = "linear" =>
        /\ \A w \in 1..Len(ret) :
               LET k == (w - 1) \div 2
               IN  /\ ret[w].reps = <<args.base_reps[1] + (w - 1), args.base_reps[2] + (w - 1)>>
                   /\ \A b \in 1..2 :
                          /\ 2 * ret[w].rpe[b] <= 2 * args.base_rpe[b] + k
                          /\ 2 * args.base_rpe[b] + k < 2 * ret[w].rpe[b] + 2
        /\ Len(ret) >= 1 => (ret[1].reps = args.base_reps /\ ret[1].rpe = args.base_rpe)
        /\ Len(ret) >= 3 => ret[3].reps = <<args.base_reps[1] + 2, args.base_reps[2] + 2>>
        /\ Len(ret) >= 4 =>
               /\ ret[4].reps = <<args.base_reps[1] + 3, args.base_reps[2] + 3>>
               /\ ret[4].rpe = ret[1].rpe

\* Medium Intensity (7, 8) spelled "LINEAR": week 4 still 7-8, week 5 is 8-9.
C8_Witness ==
    /\ args.progression = "LINEAR"
    /\ args.base_rpe = <<7, 8>>
    /\ args.base_reps = <<6, 15>>
    /\ Len(ret) = 5
    /\ ret[4].rpe = <<7, 8>>
    /\ ret[5].rpe = <<8, 9>>
    /\ ret[5].reps = <<10, 19>>

\* The phase of a week under Block: 1 volume, 2 balanced, 3 intensity.
RepsPhase(r) == CASE r = <<12, 15>> -> 1 [] r = <<6, 15>> -> 2 [] r = <<2, 8>> -> 3 [] OTHER -> 0

RpePhase(r) == CASE r = <<6, 7>> -> 1 [] r = <<7, 8>> -> 2 [] r = <<9, 10>> -> 3 [] OTHER -> 0

\* C9: under Block, with third = max(1, total_weeks // 3), for every week in
\* 1..total_weeks: weeks 1..third get (12,15) and (6,7), weeks
\* third+1..2*third get (6,15) and (7,8), the remaining weeks (2,8) and
\* (9,10); the base range is ignored, the reps phase and the RPE phase
\* coincide, and the phase never moves backwards as the week grows.
C9_Block ==
    Lower(args.progression) = "block" =>
        LET T == args.total_weeks
            third == IF T \div 3 >= 1 THEN T \div 3 ELSE 1
            weeks == {w \in 1..Len(ret) : w <= T}
        IN  /\ \A w \in weeks :
                   /\ w <= third => (ret[w].reps = <<12, 15>> /\ ret[w].rpe = <<6, 7>>)
                   /\ (third < w /\ w <= 2 * third) =>
                          (ret[w].reps = <<6, 15>> /\ ret[w].rpe = <<7, 8>>)
                   /\ w > 2 * third => (ret[w].reps = <<2, 8>> /\ ret[w].rpe = <<9, 10>>)
                   /\ RepsPhase(ret[w].reps) = RpePhase(ret[w].rpe)
                   /\ RepsPhase(ret[w].reps) # 0
            /\ \A v, w \in weeks : v <= w => RepsPhase(ret[v].reps) <= RepsPhase(ret[w].reps)

\* 7 weeks: third = 2, so weeks 1-2, 3-4 and 5-7 are the three phases, from a
\* base range that is none of the three.
C9_Witness ==
    /\ Lower(args.progression) = "block"
    /\ args.total_weeks = 7
    /\ args.base_reps = <<0, 1>>
    /\ Len(ret) = 7
    /\ RepsPhase(ret[2].reps) = 1
    /\ RepsPhase(ret[4].reps) = 2
    /\ RepsPhase(ret[5].reps) = 3
    /\ RpePhase(ret[7].rpe) = 3

\* C10: under Conjugate the ranges depend only on (day_of_week - 1) mod 3 and
\* are the same in every week and for every total_weeks: reps cycle Low,
\* Medium, High Volume, RPE cycles High, Medium, Low Intensity, so Low Volume
\* goes with High Intensity, High Volume with Low Intensity, Medium with
\* Medium.
C10_Conjugate ==
    Lower(args.progression) = "conjugate" =>
        \A w \in 1..Len(ret) :
            LET d == (args.day_of_week - 1) % 3
            IN  /\ d = 0 => (ret[w].reps = <<2, 8>> /\ ret[w].rpe = <<9, 10>>)
                /\ d = 1 => (ret[w].reps = <<6, 15>> /\ ret[w].rpe = <<7, 8>>)
                /\ d = 2 => (ret[w].reps = <<12, 15>> /\ ret[w].rpe = <<6, 7>>)
                /\ ret[w] = ret[1]
                /\ (ret[w].reps = <<2, 8>>) <=> (ret[w].rpe = <<9, 10>>)
                /\ (ret[w].reps = <<12, 15>>) <=> (ret[w].rpe = <<6, 7>>)
                /\ (ret[w].reps = <<6, 15>>) <=> (ret[w].rpe = <<7, 8>>)

\* Day 4 wraps to the first scheme: Low Volume with High Intensity, in week 6
\* of a 2-week program as in week 1.
C10_Witness ==
    /\ Lower(args.progression) = "conjugate"
    /\ args.day_of_week = 4
    /\ args.total_weeks = 2
    /\ Len(ret) = 6
    /\ ret[6].reps = <<2, 8>>
    /\ ret[6].rpe = <<9, 10>>

\* C13: for every progression kind (Linear, Undulating, Block, Conjugate, or
\* an unrecognized one, which returns the base range unchanged), every week
\* >= 1, every day >= 1 and every base range with low <= high, the range
\* returned by adjust_reps and the one returned by adjust_rpe have low <= high,
\* so the interval the rep value is drawn from is never empty.
C13_LowNotAboveHigh ==
    /\ args.base_reps[1] <= args.base_reps[2]
    /\ args.base_rpe[1] <= args.base_rpe[2]
    /\ \A w \in 1..Len(ret) :
           /\ ret[w].reps[1] <= ret[w].reps[2]
           /\ ret[w].rpe[1] <= ret[w].rpe[2]
           /\ ret[w].reps[1]..ret[w].reps[2] # {}
           /\ Lower(args.progression) \notin {"linear", "undulating", "block", "conjugate"}
                  => (ret[w].reps = args.base_reps /\ ret[w].rpe = args.base_rpe)

\* Linear on the one-point base ranges (2, 2): in week 7 the reps are (8, 8)
\* and both RPE bounds are int(2 + 1.5) = 3; the draw interval has one value.
C13_Witness ==
    /\ Lower(args.progression) = "linear"
    /\ args.base_reps = <<2, 2>>
    /\ args.base_rpe = <<2, 2>>
    /\ Len(ret) = 7
    /\ ret[7].reps = <<8, 8>>
    /\ ret[7].rpe = <<3, 3>>
    /\ ret[6].rpe = <<3, 3>>
    /\ ret[4].rpe = <<2, 2>>

-----------------------------------------------------------------------------
(* generate_program *)

\* dict.get(key, default) on a target mapping
TargetGet(targets, key, default) ==
    IF \E i \in 1..Len(targets) : targets[i].name = key
    THEN targets[CHOOSE i \in 1..Len(targets) : targets[i].name = key].sets
    ELSE default

\* math.ceil(a / b) for b > 0
CeilDiv(a, b) == -((-a) \div b)

\* VOLUME_LEVELS.get(volume_level, (6, 15))
BaseReps(volume_level) ==
    IF volume_level \in {"Low Volume", "Medium Volume", "High Volume"}
    THEN VOLUME_LEVELS(volume_level) ELSE <<6, 15>>

\* INTENSITY_LEVELS.get(intensity_level, (7, 8))
BaseRpe(intensity_level) ==
    IF intensity_level \in {"Low Intensity", "Medium Intensity", "High Intensity"}
    THEN INTENSITY_LEVELS(intensity_level) ELSE <<7, 8>>

\* amrap_format.replace("(", "").replace(")", "") on the formats main() offers
StripParens(s) ==
    CASE s = "Two 8-min sections (2-min rest)"  -> "Two 8-min sections 2-min rest"
      [] s = "Four 4-min sections (1-min rest)" -> "Four 4-min sections 1-min rest"
      [] OTHER -> s

\* The "RPE Range" cell: "{low}-{high} RPE" is <<low, high>>, "{low} RPE" is <<low>>.
FormatRpe(rpe_range) ==
    IF rpe_range[1] # rpe_range[2] THEN <<rpe_range[1], rpe_range[2]>>
    ELSE <<rpe_range[1]>>

\* The "Sets" cell: sets_per_ex if sets_per_ex > 0 else ""  (<<>> is the blank)
FormatSets(sets_per_ex) == IF sets_per_ex > 0 THEN <<sets_per_ex>> ELSE <<>>

\* wod_style == "AMRAP" and amrap_format  (None and "" are both false)
UsesAmrapLabel(wod_style, amrap_format) == wod_style = "AMRAP" /\ amrap_format # ""

\* The "Reps/Time" cell of a WOD or Accessory row: the cleaned AMRAP label, or
\* "{rep_val} reps" with rep_val = random.randint(low, high); the model keeps
\* the interval the value is drawn from, not the value.
RepTime(wod_style, amrap_format, reps_range) ==
    IF UsesAmrapLabel(wod_style, amrap_format)
    THEN [kind |-> "label", text |-> StripParens(amrap_format)]
    ELSE [kind |-> "reps", low |-> reps_range[1], high |-> reps_range[2]]

WarmUpRow(wk, day, warm_style, rpe_range) ==
    [Week |-> wk, Day |-> day, Section |-> "Warm-Up", Style |-> warm_style,
     MuscleGroup |-> "", MovementPattern |-> "", Exercise |-> "", Sets |-> <<>>,
     RepsTime |-> [kind |-> "blank"], RPERange |-> FormatRpe(rpe_range)]

\* The rows of one section: for ex, sets_per_ex in zip(ex_list, sets_list)
SectionRows(section, style, wk, day, mg, mp, ex_list, sets_list, rep_time, rpe_range) ==
    [i \in 1..Min(Len(ex_list), Len(sets_list)) |->
        [Week |-> wk, Day |-> day, Section |-> section, Style |-> style,
         MuscleGroup |-> mg, MovementPattern |-> mp, Exercise |-> ex_list[i],
         Sets |-> FormatSets(sets_list[i]), RepsTime |-> rep_time,
         RPERange |-> FormatRpe(rpe_range)]]

\* The position (from 1) of the Accessory target of day index d_idx:
\* schedule[(day_idx + 1) % len(schedule)]
AccessoryIndex_NoRotation(d_idx, schedule) == d_idx + 1

AccessoryIndex(d_idx, schedule) == ((d_idx + 1) % Len(schedule)) + 1

\* The rows one pass of the loop body appends for (wk, d_idx), given the two
\* lists select_exercises returned.
SessionRows(a, wk, d_idx, m_sched, p_sched, wod_ex_list, acc_ex_list) ==
    LET day == d_idx + 1
        mg == m_sched[d_idx + 1]
        mp == p_sched[d_idx + 1]
        acc_mg == IF m_sched # <<>> THEN m_sched[AccessoryIndex(d_idx, m_sched)] ELSE ""
        acc_mp == IF p_sched # <<>> THEN p_sched[AccessoryIndex(d_idx, p_sched)] ELSE ""
        reps_range == adjust_reps(BaseReps(a.volume_level), wk, a.num_weeks,
                                  a.progression, day, a.days_per_week)
        rpe_range == adjust_rpe(BaseRpe(a.intensity_level), wk, a.num_weeks,
                                a.progression, day, a.days_per_week)
        sets_wod_total == IF mg # ""
                          THEN CeilDiv(TargetGet(a.muscle_targets, mg, 0), a.days_per_week)
                          ELSE 0
        sets_acc_total == IF acc_mg # ""
                          THEN CeilDiv(TargetGet(a.muscle_targets, acc_mg, 0), a.days_per_week)
                          ELSE 0
        wod_sets_list == split_sets(sets_wod_total, Len(wod_ex_list))
        acc_sets_list == split_sets(sets_acc_total, Len(acc_ex_list))
        rep_time == RepTime(a.wod_style, a.amrap_format, reps_range)
        draws == Min(Len(wod_ex_list), Len(wod_sets_list))
                 + Min(Len(acc_ex_list), Len(acc_sets_list))
    IN  IF rep_time.kind = "reps" /\ rep_time.low > rep_time.high /\ draws > 0
        THEN \* random.randint raises ValueError on the first WOD or Accessory row
             [raised |-> TRUE, rows |-> <<WarmUpRow(wk, day, a.warm_style, rpe_range)>>]
        ELSE [raised |-> FALSE,
              rows |-> <<WarmUpRow(wk, day, a.warm_style, rpe_range)>>
                       \o SectionRows("WOD", a.wod_style, wk, day, mg, mp,
                                      wod_ex_list, wod_sets_list, rep_time, rpe_range)
                       \o SectionRows("Accessory", a.acc_style, wk, day, acc_mg, acc_mp,
                                      acc_ex_list, acc_sets_list, rep_time, rpe_range)]

\* The mappings handed to generate_program (as main() builds them: every
\* count positive, keys in the order of the UI lists).
MuscleTargetInputs ==
    { <<>>,
      <<[name |-> "Chest", sets |-> 6], [name |-> "Back", sets |-> 3]>>,
      <<[name |-> "Shoulders", sets |-> 4]>> }

PatternTargetInputs ==
    { <<>>,
      <<[name |-> "Push - Vertical", sets |-> 3]>>,
      <<[name |-> "Push - Horizontal", sets |-> 2], [name |-> "Pull - Vertical", sets |-> 2]>> }

\* (wod_style, amrap_format): main() passes a format only with the AMRAP style.
StyleInputs == {<<"AMRAP", "Two 8-min sections (2-min rest)">>, <<"For Time", "">>}

ProgramInputs ==
    {[num_weeks |-> nw, days_per_week |-> dpw, muscle_targets |-> mt,
      pattern_targets |-> pt, warm_style |-> "Traditional Warm-Up",
      wod_style |-> st[1], acc_style |-> "Tabata", volume_level |-> vl,
      intensity_level |-> "Medium Intensity", progression |-> pr,
      num_wod_ex |-> nwe, num_acc_ex |-> nae, amrap_format |-> st[2]] :
        nw \in 1..MaxProgWeeks, dpw \in 1..MaxProgDays,
        mt \in MuscleTargetInputs, pt \in PatternTargetInputs,
        st \in StyleInputs, vl \in {"Medium Volume", "Low Volume"},
        pr \in {"Linear", "Undulating", "Block", "Conjugate", "Wave"},
        nwe \in 0..MaxEx, nae \in 0..MaxEx}

Init ==
    /\ pc = "generate_program"
    /\ args \in ProgramInputs
    /\ ret = <<>>
    /\ ProgramIdle

\* Lines 363-372: the two schedules, then rows = [] and the first iteration.
Start ==
    /\ pc = "generate_program"
    /\ \E ms \in DistributeOutcomes(args.muscle_targets, args.days_per_week),
          ps \in DistributeOutcomes(args.pattern_targets, args.days_per_week) :
          /\ muscle_schedule' = IF ms = <<>> THEN Repeat("", args.days_per_week) ELSE ms
          /\ pattern_schedule' = IF ps = <<>> THEN Repeat("", args.days_per_week) ELSE ps
    /\ rows' = <<>>
    /\ week' = 1
    /\ day_idx' = 0
    /\ pc' = "loop"
    /\ UNCHANGED <<args, ret>>

\* One pass of the body of the two nested loops.
Session ==
    /\ pc = "loop"
    /\ week <= args.num_weeks
    /\ \E wod_ex_list \in SelectOutcomes(muscle_schedule[day_idx + 1],
                                         pattern_schedule[day_idx + 1],
                                         args.num_wod_ex, MaxPick),
          acc_ex_list \in SelectOutcomes(
                              muscle_schedule[AccessoryIndex(day_idx, muscle_schedule)],
                              pattern_schedule[AccessoryIndex(day_idx, pattern_schedule)],
                              args.num_acc_ex, MaxPick) :
          LET s == SessionRows(args, week, day_idx, muscle_schedule, pattern_schedule,
                               wod_ex_list, acc_ex_list)
          IN  /\ rows' = rows \o s.rows
              /\ pc' = IF s.raised THEN "raised" ELSE "loop"
    /\ IF day_idx + 1 < args.days_per_week
       THEN day_idx' = day_idx + 1 /\ week' = week
       ELSE day_idx' = 0 /\ week' = week + 1
    /\ UNCHANGED <<args, ret, muscle_schedule, pattern_schedule>>

\* return pd.DataFrame(rows)
Return ==
    /\ pc = "loop"
    /\ week > args.num_weeks
    /\ ret' = rows
    /\ pc' = "returned"
    /\ UNCHANGED <<args, muscle_schedule, pattern_schedule, week, day_idx, rows>>

Next == Start \/ Session \/ Return

Spec == Init /\ [][Next]_vars

-----------------------------------------------------------------------------
(* Claims about generate_program, checked under Spec *)

Generating == pc \in {"loop", "returned"}

RowsPerSession == 1 + args.num_wod_ex + args.num_acc_ex

\* C2: the rows are ordered week-major then day-minor, and every session is
\* one Warm-Up row, then num_wod_ex WOD rows, then num_acc_ex Accessory rows:
\* row i (from 0) belongs to session i div (1 + num_wod_ex + num_acc_ex), the
\* sessions run through the days of week 1, then of week 2, ...; the returned
\* table has num_weeks * days_per_week * (1 + num_wod_ex + num_acc_ex) rows.
C2_RowOrder ==
    /\ pc # "raised"
    /\ Generating =>
        /\ \A i \in 1..Len(rows) :
               LET session == (i - 1) \div RowsPerSession
                   within == (i - 1) % RowsPerSession
               IN  /\ rows[i].Week = (session \div args.days_per_week) + 1
                   /\ rows[i].Day = (session % args.days_per_week) + 1
                   /\ rows[i].Section =
                          IF within = 0 THEN "Warm-Up"
                          ELSE IF within <= args.num_wod_ex THEN "WOD"
                          ELSE "Accessory"
        /\ Len(rows) % RowsPerSession = 0
        /\ pc = "returned" =>
               /\ ret = rows
               /\ Len(ret) = args.num_weeks * args.days_per_week * RowsPerSession

\* The end-to-end scenario: 4 weeks, 3 days, Chest 6 and Back 3, no pattern
\* targets, Linear, 2 + 2 exercises: 60 rows.
C2_Witness ==
    /\ pc = "returned"
    /\ args.num_weeks = 4
    /\ args.days_per_week = 3
    /\ Len(args.muscle_targets) = 2
    /\ args.pattern_targets = <<>>
    /\ args.progression = "Linear"
    /\ args.num_wod_ex = 2
    /\ args.num_acc_ex = 2
    /\ Len(ret) = 60
    /\ ret[60].Section = "Accessory"
    /\ ret[56].Section = "Warm-Up"

\* No catalog entry has this muscle group or this movement pattern.
NoCatalogMatch(mg, mp) ==
    \A i \in 1..Len(EXERCISE_DB) : EXERCISE_DB[i].mg # mg /\ EXERCISE_DB[i].mp # mp

WorkRows == {i \in 1..Len(rows) : rows[i].Section # "Warm-Up"}

AllWorkRowsEmitted ==
    pc = "returned" =>
        Cardinality(WorkRows) =
            args.num_weeks * args.days_per_week * (args.num_wod_ex + args.num_acc_ex)

\* C6 (as claimed): when a session's pair has no catalog match at all, in
\* particular with both mappings empty, generate_program does not fail, emits
\* every WOD and Accessory row, and those rows have blank muscle-group,
\* movement-pattern and exercise fields.
C6_BlankOnNoMatch ==
    /\ pc # "raised"
    /\ AllWorkRowsEmitted
    /\ \A i \in WorkRows :
           NoCatalogMatch(rows[i].MuscleGroup, rows[i].MovementPattern) =>
               /\ rows[i].MuscleGroup = ""
               /\ rows[i].MovementPattern = ""
               /\ rows[i].Exercise = ""

\* C6 (amended): when a session's pair has no catalog match at all,
\* generate_program does not fail and emits every WOD and Accessory row; the
\* row's muscle-group and movement-pattern fields are the schedule entries,
\* blank exactly when the corresponding mapping is empty, and its exercise
\* field is not blank: it is a name of the catalog.
C6_CatalogNameOnNoMatch ==
    /\ pc # "raised"
    /\ AllWorkRowsEmitted
    /\ \A i \in WorkRows :
           NoCatalogMatch(rows[i].MuscleGroup, rows[i].MovementPattern) =>
               /\ rows[i].Exercise # ""
               /\ rows[i].Exercise \in CatalogNames
               /\ (rows[i].MuscleGroup = "") <=> (args.muscle_targets = <<>>)
               /\ (rows[i].MovementPattern = "") <=> (args.pattern_targets = <<>>)
               /\ rows[i].MuscleGroup \in Range(muscle_schedule)
               /\ rows[i].MovementPattern \in Range(pattern_schedule)

\* Both mappings empty, two exercises per section: a finished program whose
\* WOD and Accessory rows have blank targets and a catalog exercise.
C6_Witness ==
    /\ pc = "returned"
    /\ args.muscle_targets = <<>>
    /\ args.pattern_targets = <<>>
    /\ args.num_wod_ex = 2
    /\ args.num_acc_ex = 2
    /\ args.num_weeks = 2
    /\ \E i \in WorkRows :
           /\ rows[i].Section = "Accessory"
           /\ rows[i].MuscleGroup = ""
           /\ rows[i].MovementPattern = ""
           /\ rows[i].Exercise = "Goblet Squat"

\* The rows of one section.
RowsOf(section) == {i \in 1..Len(rows) : rows[i].Section = section}

\* C12: in every session the WOD rows carry the muscle group and movement
\* pattern at index dayIndex of the two day schedules, and the Accessory rows
\* the entries at index (dayIndex + 1) mod daysPerWeek; the schedules are
\* computed once per run and have daysPerWeek entries, so in every week the
\* Accessory target of day d is the WOD target of the next day (the first day
\* after the last), and with daysPerWeek = 1 it is the WOD target of the day.
C12_AccessoryRotation ==
    Generating =>
        /\ Len(muscle_schedule) = args.days_per_week
        /\ Len(pattern_schedule) = args.days_per_week
        /\ \A i \in RowsOf("WOD") :
               /\ rows[i].MuscleGroup = muscle_schedule[rows[i].Day]
               /\ rows[i].MovementPattern = pattern_schedule[rows[i].Day]
        /\ \A i \in RowsOf("Accessory") :
               LET next == (rows[i].Day % args.days_per_week) + 1
               IN  /\ rows[i].MuscleGroup = muscle_schedule[next]
                   /\ rows[i].MovementPattern = pattern_schedule[next]
                   /\ \A j \in RowsOf("WOD") :
                          rows[j].Day = next =>
                              /\ rows[j].MuscleGroup = rows[i].MuscleGroup
                              /\ rows[j].MovementPattern = rows[i].MovementPattern
                   /\ args.days_per_week = 1 =>
                          /\ rows[i].MuscleGroup = muscle_schedule[1]
                          /\ rows[i].MovementPattern = pattern_schedule[1]

\* Chest 6 and Back 3 over 3 days give Chest, Back, Chest: in week 2 the
\* Accessory rows of day 1 carry Back (the WOD target of day 2) while the WOD
\* rows of day 1 carry Chest, and the Accessory rows of day 3 wrap to day 1.
C12_Witness ==
    /\ pc = "returned"
    /\ args.days_per_week = 3
    /\ args.num_weeks >= 2
    /\ muscle_schedule = <<"Chest", "Back", "Chest">>
    /\ pattern_schedule = <<"Push - Horizontal", "Pull - Vertical", "Push - Horizontal">>
    /\ \E i \in RowsOf("Accessory"), j \in RowsOf("WOD") :
           /\ rows[i].Week = 2 /\ rows[i].Day = 1
           /\ rows[j].Week = 2 /\ rows[j].Day = 1
           /\ rows[i].MuscleGroup = "Back" /\ rows[j].MuscleGroup = "Chest"
           /\ rows[i].MovementPattern = "Pull - Vertical"
    /\ \E i \in RowsOf("Accessory") :
           /\ rows[i].Week = 2 /\ rows[i].Day = 3
           /\ rows[i].MuscleGroup = "Chest"
           /\ rows[i].MovementPattern = "Push - Horizontal"

=============================================================================
